---- MODULE Spec2Model ----
(***************************************************************************)
(* A model of MemoryManager (src/src/memory-manager.ts) with the types,    *)
(* the default configuration and the empty state of src/unnamed/part_000.  *)
(*                                                                         *)
(* Texts are TLA+ strings: \o is JavaScript's string concatenation, Len    *)
(* its .length, SubSeq its slice.  The fractional numbers of the           *)
(* configuration and the facet weights are fixed-point numbers in units    *)
(* of 1/SCALE, products rounded to the nearest unit.                       *)
(***************************************************************************)
EXTENDS Integers, Sequences, FiniteSets, TLC

VARIABLES
    config,          \* this.config
    recentMessages,  \* this.state.recentMessages
    laneSummaries,   \* this.state.laneSummaries
    persona,         \* this.state.persona
    basePrompt,      \* this.state.basePrompt
    normativeBlock,  \* this.state.normativeBlock
    turnCounter,     \* this.turnCounter
    lastReflectTurn, \* this.lastReflectTurn
    updatedAt,       \* this.state.updatedAt, as a time of the clock
    files,           \* the agent's directory: memory.json, commandments.md
    now,             \* the last value Date.now() returned
    op,              \* the last call: its name, arguments and return value
    round,           \* the caller's summarization round: what the last
                     \* memory_add_message answered as needs_summarization,
                     \* and the lanes summarized since
    server           \* the server around the manager: the agent id whose
                     \* manager the variables above hold, the other
                     \* entries of the map managers, and the memory_load
                     \* that awaits its read of memory.json

vars == <<config, recentMessages, laneSummaries, persona, basePrompt,
          normativeBlock, updatedAt, files, turnCounter, lastReflectTurn,
          now, op, round, server>>

---------------------------------------------------------------------------
(* Bounds of the model *)

\* addMessage is called at most MaxTurns times
MaxTurns == 4
\* Date.now() returns at most MaxTime
MaxTime == 1
\* applyPersonaUpdate is called at most MaxVersion times
MaxVersion == 3
\* a lane summary grows to at most MaxSummaryLen characters
MaxSummaryLen == 9

---------------------------------------------------------------------------
(* Numbers *)

SCALE == 100 * 100

Max(a, b) == IF a >= b THEN a ELSE b

Min(a, b) == IF a <= b THEN a ELSE b

\* Math.floor(a / b) for a >= 0, b > 0
Floor(a, b) == a \div b

\* Math.ceil(a / b) for a >= 0, b > 0
Ceil(a, b) == (a + b - 1) \div b

---------------------------------------------------------------------------
(* Types and configuration *)

Roles == {"assistant", "user", "system", "tool"}

Lanes == {"assistant", "user", "system"}

\* the order in which applyLaneSummary walks the roles
RoleOrder == <<"assistant", "user", "system", "tool">>

DEFAULT_CONFIG ==
    [ contextTokens       |-> 8192,
      avgCharsPerToken    |-> 4,
      highRatio           |-> (70 * SCALE) \div 100,
      lowRatio            |-> (50 * SCALE) \div 100,
      keepRecentPerLane   |-> 4,
      minReflectGapTurns  |-> 3,
      decayPerPass        |-> (3 * SCALE) \div 100,
      minKeepWeight       |-> (22 * SCALE) \div 100,
      mergeAggressiveness |-> (60 * SCALE) \div 100 ]

\* constructor: this.config = { ...DEFAULT_CONFIG, ...config } for a
\* config that sets keepRecentPerLane
WithOverrides(keepN) == [DEFAULT_CONFIG EXCEPT !.keepRecentPerLane = keepN]

\* createEmptyState(agentId, ''): the fields the manager reads
EmptyPersona ==
    [ version |-> 0, lastUpdatedTurn |-> 0,
      roles |-> <<>>, style |-> <<>>, heuristics |-> <<>>,
      goals |-> <<>>, antigoals |-> <<>> ]

EmptyLaneSummaries ==
    [ assistant |-> "", system |-> "", user |-> "", lastSummarizedAt |-> 0 ]

\* a call record: the name of the method or tool, its arguments (arg,
\* text, count, update), what it read (existing), what it returned (ret,
\* messages) and the error it threw ("" when it returned)
NoCall ==
    [ name |-> "new", arg |-> "", text |-> "", existing |-> "", ret |-> "",
      count |-> 0, update |-> [persona |-> <<>>], messages |-> <<>>,
      error |-> "" ]

\* the state of the manager as one object, as saveMemory writes it and
\* loadMemory returns it
StateObject(p, sums, msgs, base, block, updated) ==
    [ persona |-> p, laneSummaries |-> sums, recentMessages |-> msgs,
      basePrompt |-> base, normativeBlock |-> block, updatedAt |-> updated ]

\* createEmptyState(agentId, '') at time 0
EmptyState ==
    StateObject(EmptyPersona, EmptyLaneSummaries, <<>>, "", "", 0)

\* memory.json: absent, a text JSON.parse rejects ("garbage"), the text
\* null, or the text of a state object, held as the object JSON.parse
\* makes of it
NoMemoryFile == [kind |-> "absent", value |-> EmptyState]

\* commandments.md: absent or a text
NoCommandments == [exists |-> FALSE, content |-> ""]

\* an agent directory without files
NoFiles == [memory |-> NoMemoryFile, commandments |-> NoCommandments]

\* the agent ids of the tool calls
AgentIds == {"a", "b"}

\* an agent id for which the map managers has no entry
NoManager == [created |-> FALSE]

\* no memory_load awaits its read
NoLoad == [awaiting |-> FALSE, base_prompt |-> ""]

\* the server before its first call, with the manager of the first call
\* in place
NoServer ==
    [ agentId |-> "a", managers |-> [id \in AgentIds |-> NoManager],
      loading |-> NoLoad ]

\* new MemoryManager(agentId, config) with config drawn from cfgs, in an
\* agent directory drawn from dirs
InitWithFiles(cfgs, dirs) ==
    /\ config \in cfgs
    /\ files \in dirs
    /\ updatedAt = 0
    /\ recentMessages = <<>>
    /\ laneSummaries = EmptyLaneSummaries
    /\ persona = EmptyPersona
    /\ basePrompt = ""
    /\ normativeBlock = ""
    /\ turnCounter = 0
    /\ lastReflectTurn = 0
    /\ now = 0
    /\ op = NoCall
    /\ round = [needed |-> FALSE, lanes |-> {}]
    /\ server = NoServer

\* new MemoryManager(agentId, config) where no file exists
InitWith(cfgs) == InitWithFiles(cfgs, {NoFiles})

\* the values a call of Date.now() may return: the clock does not run
\* backwards and two calls may fall into the same millisecond
DateNow == { t \in {now, now + 1} : t <= MaxTime }

---------------------------------------------------------------------------
(* Messages *)

\* setBasePrompt(prompt)
SetBasePrompt(prompt) ==
    /\ basePrompt' = prompt
    /\ op' = [NoCall EXCEPT !.name = "setBasePrompt", !.text = prompt]
    /\ UNCHANGED <<server, files, updatedAt, config, recentMessages, laneSummaries, persona,
                   normativeBlock, turnCounter, lastReflectTurn, now, round>>

\* setNormativeBlock(block)
SetNormativeBlock(block) ==
    /\ normativeBlock' = block
    /\ op' = [NoCall EXCEPT !.name = "setNormativeBlock", !.text = block]
    /\ UNCHANGED <<server, files, updatedAt, config, recentMessages, laneSummaries, persona,
                   basePrompt, turnCounter, lastReflectTurn, now, round>>

\* the characters estimateTokens adds for each message besides its content
MessageOverhead == 32

RECURSIVE MessageChars(_)
\* the loop of estimateTokens over recentMessages
MessageChars(msgs) ==
    IF Len(msgs) = 0 THEN 0
    ELSE Len(msgs[1].content) + MessageOverhead + MessageChars(Tail(msgs))

\* estimateTokens() in a state with these texts and messages
estimateTokensOf(base, block, sums, msgs) ==
    LET chars == Len(base) + Len(block) + Len(sums.assistant)
                 + Len(sums.system) + Len(sums.user) + MessageChars(msgs)
    IN Ceil(chars, config.avgCharsPerToken)

\* estimateTokens()
estimateTokens ==
    estimateTokensOf(basePrompt, normativeBlock, laneSummaries, recentMessages)

\* estimated > contextTokens * highRatio, highRatio in units of 1/SCALE
OverBudget(estimated) ==
    estimated * SCALE > config.contextTokens * config.highRatio

\* needsSummarization()
needsSummarization == OverBudget(estimateTokens)

\* addMessage(role, content), Date.now() returning t; the handler of
\* memory_add_message answers needs_summarization after the call
AddMessage(role, content, t) ==
    /\ turnCounter < MaxTurns
    /\ t \in DateNow
    /\ recentMessages' = Append(recentMessages,
            [role |-> role, content |-> content, timestamp |-> t])
    /\ turnCounter' = turnCounter + 1
    /\ now' = t
    /\ op' = [NoCall EXCEPT !.name = "addMessage", !.arg = role, !.text = content]
    /\ round' = [needed |-> OverBudget(estimateTokensOf(basePrompt,
                        normativeBlock, laneSummaries, recentMessages')),
                 lanes |-> {}]
    /\ UNCHANGED <<server, files, updatedAt, config, laneSummaries, persona, basePrompt,
                   normativeBlock, lastReflectTurn>>

\* partitionMessages with the tool messages filed under user as well
partitionMessagesToolAsUser(msgs) ==
    [ r \in Roles |-> SelectSeq(msgs,
        LAMBDA m : m.role = r \/ (r = "user" /\ m.role = "tool")) ]

\* partitionMessages(): the messages of each role, in buffer order
partitionMessages(msgs) ==
    [ r \in Roles |-> SelectSeq(msgs, LAMBDA m : m.role = r) ]

\* partitionMessages() throws a TypeError at result[msg.role].push(msg)
\* when a message has a role that is no key of result
partitionThrows(msgs) == \E i \in DOMAIN msgs : msgs[i].role \notin Roles

\* SliceOlder without the tail held back
SliceOlderWhole(s, n) == s

\* s.slice(0, Math.max(0, s.length - n))
SliceOlder(s, n) == SubSeq(s, 1, Max(0, Len(s) - n))

\* s.slice(Math.max(0, s.length - n))
SliceRecent(s, n) == SubSeq(s, Max(0, Len(s) - n) + 1, Len(s))

\* lane.toUpperCase() for the keys of the partition
toUpperCase(lane) ==
    CASE lane = "assistant" -> "ASSISTANT"
      [] lane = "user"      -> "USER"
      [] lane = "system"    -> "SYSTEM"
      [] lane = "tool"      -> "TOOL"

\* `- ${lane.toUpperCase()}: ${m.content}`
Bullet(lane, m) == "- " \o toUpperCase(lane) \o ": " \o m.content

RECURSIVE JoinBullets(_, _)
\* older.map(m => bullet).join('\n\n')
JoinBullets(lane, older) ==
    IF Len(older) = 0 THEN ""
    ELSE IF Len(older) = 1 THEN Bullet(lane, older[1])
    ELSE Bullet(lane, older[1]) \o "\n\n" \o JoinBullets(lane, Tail(older))

\* getLaneForSummarization(lane): the returned text
getLaneForSummarization(lane) ==
    LET partitioned == partitionMessages(recentMessages)
        messages == partitioned[lane]
        keepN == config.keepRecentPerLane
        older == SliceOlder(messages, keepN)
    IN IF Len(older) = 0 THEN "" ELSE JoinBullets(lane, older)

\* a call of getLaneForSummarization(lane): a TypeError when
\* partitionMessages throws or partitioned[lane] is undefined
GetLaneForSummarization(lane) ==
    /\ op' = IF partitionThrows(recentMessages) \/ lane \notin Roles
             THEN [NoCall EXCEPT !.name = "getLaneForSummarization",
                                 !.arg = lane, !.error = "TypeError"]
             ELSE [NoCall EXCEPT !.name = "getLaneForSummarization",
                                 !.arg = lane,
                                 !.ret = getLaneForSummarization(lane)]
    /\ UNCHANGED <<server, files, updatedAt, config, recentMessages, laneSummaries, persona, basePrompt,
                   normativeBlock, turnCounter, lastReflectTurn, now, round>>

RECURSIVE InsertByTimestamp(_, _)
\* m put behind every message of sorted whose timestamp is not larger
InsertByTimestamp(sorted, m) ==
    IF Len(sorted) = 0 THEN <<m>>
    ELSE IF sorted[Len(sorted)].timestamp <= m.timestamp THEN Append(sorted, m)
    ELSE Append(InsertByTimestamp(SubSeq(sorted, 1, Len(sorted) - 1), m),
                sorted[Len(sorted)])

RECURSIVE SortByTimestamp(_)
\* kept.sort((a, b) => a.timestamp - b.timestamp): a stable sort
SortByTimestamp(kept) ==
    IF Len(kept) = 0 THEN <<>>
    ELSE InsertByTimestamp(SortByTimestamp(SubSeq(kept, 1, Len(kept) - 1)),
                           kept[Len(kept)])

\* the separator between the blocks of a lane summary
SEP == "\n\n---\n\n"

\* PrependSummary with the new block put behind the older ones
PrependSummaryBehind(existing, summary) ==
    IF existing # "" THEN existing \o SEP \o summary ELSE summary

\* PrependSummary with the older blocks dropped
PrependSummaryOverwriting(existing, summary) == summary

\* the lane's summary with summary prepended
PrependSummary(existing, summary) ==
    IF existing # "" THEN summary \o SEP \o existing ELSE summary

RECURSIVE KeepRecent(_, _, _)
\* kept after the loop over the roles RoleOrder[i..4]
KeepRecent(partitioned, keepN, i) ==
    IF i > Len(RoleOrder) THEN <<>>
    ELSE SliceRecent(partitioned[RoleOrder[i]], keepN)
         \o KeepRecent(partitioned, keepN, i + 1)

\* RebuildRecent with the loop over the roles starting at its second role
RebuildRecentSkippingRole(msgs, keepN) ==
    SortByTimestamp(KeepRecent(partitionMessages(msgs), keepN, 2))

\* the buffer applyLaneSummary leaves
RebuildRecent(msgs, keepN) ==
    SortByTimestamp(KeepRecent(partitionMessages(msgs), keepN, 1))

\* this.state.laneSummaries[lane]: undefined, which is falsy as "" is,
\* when lane is no key of laneSummaries
ExistingSummary(lane) ==
    IF lane \in DOMAIN laneSummaries THEN laneSummaries[lane] ELSE ""

\* applyLaneSummary(lane, summary), Date.now() returning t: the summary
\* and lastSummarizedAt are assigned before partitionMessages() is
\* called, so they stay assigned when it throws
ApplyLaneSummary(lane, summary, t) ==
    /\ Len(PrependSummary(ExistingSummary(lane), summary)) <= MaxSummaryLen
    /\ t \in DateNow
    /\ laneSummaries' =
            [ k \in DOMAIN laneSummaries \cup {lane} |->
                IF k = "lastSummarizedAt" THEN t
                ELSE IF k = lane
                     THEN PrependSummary(ExistingSummary(lane), summary)
                     ELSE laneSummaries[k] ]
    /\ now' = t
    /\ recentMessages' =
            IF partitionThrows(recentMessages) THEN recentMessages
            ELSE RebuildRecent(recentMessages, config.keepRecentPerLane)
    /\ op' = [NoCall EXCEPT !.name = "applyLaneSummary", !.arg = lane,
                            !.text = summary,
                            !.existing = ExistingSummary(lane),
                            !.error = IF partitionThrows(recentMessages)
                                      THEN "TypeError" ELSE ""]
    /\ round' = IF round.needed /\ ~partitionThrows(recentMessages)
                THEN [round EXCEPT !.lanes = @ \cup {lane}]
                ELSE round
    /\ UNCHANGED <<server, files, updatedAt, config, persona, basePrompt, normativeBlock,
                   turnCounter, lastReflectTurn>>

---------------------------------------------------------------------------
(* Persona *)

Categories == {"roles", "style", "heuristics", "goals", "antigoals"}

\* the cap applyPersonaUpdate passes to merge for each category
Cap == [ roles |-> 3, style |-> 6, heuristics |-> 8, goals |-> 4, antigoals |-> 6 ]

\* a * b for fixed-point a and b, rounded to the nearest unit
Mul(a, b) == (a * b + SCALE \div 2) \div SCALE

\* one character of text.toLowerCase()
LowerChar(c) ==
    CASE c = "A" -> "a"
      [] c = "B" -> "b"
      [] c = "H" -> "h"
      [] OTHER   -> c

RECURSIVE toLowerCase(_)
\* text.toLowerCase()
toLowerCase(text) ==
    IF Len(text) = 0 THEN ""
    ELSE LowerChar(SubSeq(text, 1, 1)) \o toLowerCase(SubSeq(text, 2, Len(text)))

RECURSIVE trim(_)
\* text.trim(): the white space at both ends removed
trim(text) ==
    IF Len(text) = 0 THEN ""
    ELSE IF SubSeq(text, 1, 1) = " " THEN trim(SubSeq(text, 2, Len(text)))
    ELSE IF SubSeq(text, Len(text), Len(text)) = " "
         THEN trim(SubSeq(text, 1, Len(text) - 1))
    ELSE text

\* the key merge compares: text.toLowerCase().trim()
KeyOf(text) == trim(toLowerCase(text))

\* aged(arr) without the decay
agedNone(arr) == arr

\* aged(arr) with the decay taken twice
agedTwice(arr) ==
    [ i \in DOMAIN arr |->
        [arr[i] EXCEPT !.weight = Mul(Mul(@, SCALE - config.decayPerPass),
                                      SCALE - config.decayPerPass)] ]

\* aged(arr): every weight times 1 - decayPerPass
aged(arr) ==
    [ i \in DOMAIN arr |->
        [arr[i] EXCEPT !.weight = Mul(@, SCALE - config.decayPerPass)] ]

\* the weight of a facet found in dst, boosted by item
\* Math.min(1, 1 - (1 - existing.weight) * (1 - bump))
Boosted(weight, item) ==
    LET bump == Mul(item.weight, config.mergeAggressiveness)
    IN Min(SCALE, SCALE - Mul(SCALE - weight, SCALE - bump))

\* Inserted with mergeAggressiveness in the place of 0.5
InsertedByAggressiveness(item) ==
    Min(SCALE, Mul(item.weight, config.mergeAggressiveness)
               + (15 * SCALE) \div 100)

\* the weight of a facet not found in dst
\* Math.min(1, item.weight * 0.5 + 0.15)
Inserted(item) ==
    Min(SCALE, Mul(item.weight, (50 * SCALE) \div 100) + (15 * SCALE) \div 100)

\* MergeItem comparing the texts as they are written
MergeItemExactText(dst, item) ==
    LET found == { i \in DOMAIN dst : dst[i].text = item.text }
    IN IF found # {}
       THEN LET i == CHOOSE k \in found : \A j \in found : k <= j
            IN [dst EXCEPT ![i].weight = Boosted(@, item)]
       ELSE Append(dst, [text |-> item.text, weight |-> Inserted(item)])

\* one pass of the loop of merge: item found in dst and boosted, or added
MergeItem(dst, item) ==
    LET key == KeyOf(item.text)
        found == { i \in DOMAIN dst : KeyOf(dst[i].text) = key }
    IN IF found # {}
       THEN LET i == CHOOSE k \in found : \A j \in found : k <= j
            IN [dst EXCEPT ![i].weight = Boosted(@, item)]
       ELSE Append(dst, [text |-> item.text, weight |-> Inserted(item)])

RECURSIVE MergeAll(_, _)
\* for (const item of src) ...
MergeAll(dst, src) ==
    IF Len(src) = 0 THEN dst
    ELSE MergeAll(MergeItem(dst, src[1]), Tail(src))

\* .filter(f => f.weight >= minKeepWeight) without the test
FilterWeakNone(arr) == arr

\* .filter(f => f.weight >= minKeepWeight)
FilterWeak(arr) ==
    SelectSeq(arr, LAMBDA f : f.weight >= config.minKeepWeight)

RECURSIVE InsertByWeight(_, _)
\* f put behind every facet of sorted whose weight is not smaller
InsertByWeight(sorted, f) ==
    IF Len(sorted) = 0 THEN <<f>>
    ELSE IF sorted[Len(sorted)].weight >= f.weight THEN Append(sorted, f)
    ELSE Append(InsertByWeight(SubSeq(sorted, 1, Len(sorted) - 1), f),
                sorted[Len(sorted)])

RECURSIVE SortByWeight(_)
\* .sort((a, b) => b.weight - a.weight): a stable sort, heaviest first
SortByWeight(arr) ==
    IF Len(arr) = 0 THEN <<>>
    ELSE InsertByWeight(SortByWeight(SubSeq(arr, 1, Len(arr) - 1)),
                        arr[Len(arr)])

\* .slice(0, cap) without the cut
SliceCapNone(arr, cap) == arr

\* .slice(0, cap)
SliceCap(arr, cap) == SubSeq(arr, 1, Min(Len(arr), cap))

\* merge(dst, src, cap)
merge(dst, src, cap) ==
    SliceCap(SortByWeight(FilterWeak(MergeAll(dst, src))), cap)

\* update.persona[category] || []
FacetsOf(update, category) ==
    IF category \in DOMAIN update.persona THEN update.persona[category] ELSE <<>>

\* persona.version++ counting two
NextVersionTwice(version) == version + 2

\* persona.version++
NextVersion(version) == version + 1

\* the categories in the order applyPersonaUpdate merges them
CategoryOrder == <<"roles", "style", "heuristics", "goals", "antigoals">>

\* the position in src of the first item at which item.text.toLowerCase()
\* throws a TypeError, its text being undefined; 0 when there is none
mergeThrowsAt(src) ==
    LET bad == { i \in DOMAIN src : "text" \notin DOMAIN src[i] }
    IN IF bad = {} THEN 0 ELSE CHOOSE i \in bad : \A j \in bad : i <= j

\* the position in CategoryOrder of the first category whose merge throws,
\* 0 when there is none
throwingCategory(update) ==
    LET bad == { k \in DOMAIN CategoryOrder :
                    mergeThrowsAt(FacetsOf(update, CategoryOrder[k])) > 0 }
    IN IF bad = {} THEN 0 ELSE CHOOSE k \in bad : \A j \in bad : k <= j

\* applyPersonaUpdate(update) throws a TypeError: update.persona is
\* undefined, or a facet of the update has no text
personaUpdateThrows(update) ==
    \/ "persona" \notin DOMAIN update
    \/ throwingCategory(update) > 0

\* the persona applyPersonaUpdate leaves behind when it throws: every
\* category is decayed before update.persona is read; the categories
\* merged before the throw are merged, and the category that throws holds
\* the array the loop of merge worked on in place, with the items before
\* the one without text merged, not filtered, sorted or cut
personaAfterThrow(update) ==
    [ f \in DOMAIN persona |->
        IF f \notin Categories THEN persona[f]
        ELSE IF "persona" \notin DOMAIN update THEN aged(persona[f])
        ELSE LET k == CHOOSE i \in DOMAIN CategoryOrder : CategoryOrder[i] = f
                 t == throwingCategory(update)
                 src == FacetsOf(update, f)
             IN IF k < t THEN merge(aged(persona[f]), src, Cap[f])
                ELSE IF k = t
                THEN MergeAll(aged(persona[f]),
                              SubSeq(src, 1, mergeThrowsAt(src) - 1))
                ELSE aged(persona[f]) ]

\* applyPersonaUpdate(update): a TypeError leaves the version and the
\* turns as they were
ApplyPersonaUpdate(update) ==
    /\ persona.version < MaxVersion
    /\ persona' =
        IF personaUpdateThrows(update) THEN personaAfterThrow(update)
        ELSE
        [ f \in DOMAIN persona |->
            IF f \in Categories
            THEN merge(aged(persona[f]), FacetsOf(update, f), Cap[f])
            ELSE IF f = "version" THEN NextVersion(persona.version)
            ELSE turnCounter ]
    /\ lastReflectTurn' =
        IF personaUpdateThrows(update) THEN lastReflectTurn ELSE turnCounter
    /\ op' = IF personaUpdateThrows(update)
             THEN [NoCall EXCEPT !.name = "applyPersonaUpdate",
                                 !.update = update, !.error = "TypeError"]
             ELSE [NoCall EXCEPT !.name = "applyPersonaUpdate",
                                 !.update = update, !.ret = "true"]
    /\ UNCHANGED <<server, files, updatedAt, config, recentMessages, laneSummaries, basePrompt,
                   normativeBlock, turnCounter, now, round>>

---------------------------------------------------------------------------
(* Reflection *)

\* needsReflection() answering true one turn late
needsReflectionLate ==
    turnCounter - lastReflectTurn > config.minReflectGapTurns

\* needsReflection()
needsReflection ==
    turnCounter - lastReflectTurn >= config.minReflectGapTurns

\* s.slice(start): from index start, counted from the end of s when
\* start is negative
SliceFrom(s, start) ==
    LET k == IF start < 0 THEN Max(Len(s) + start, 0) ELSE Min(start, Len(s))
    IN SubSeq(s, k + 1, Len(s))

\* getRecentForReflection(maxMessages): -maxMessages is 0 when
\* maxMessages is 0
getRecentForReflection(maxMessages) == SliceFrom(recentMessages, -maxMessages)

\* a call of getRecentForReflection(maxMessages)
GetRecentForReflection(maxMessages) ==
    /\ op' = [NoCall EXCEPT !.name = "getRecentForReflection",
                            !.count = maxMessages,
                            !.messages = getRecentForReflection(maxMessages)]
    /\ UNCHANGED <<server, files, updatedAt, config, recentMessages, laneSummaries,
                   persona, basePrompt, normativeBlock, turnCounter,
                   lastReflectTurn, now, round>>

---------------------------------------------------------------------------
(* Persistence *)

\* the state of the manager as one object
CurrentState ==
    StateObject(persona, laneSummaries, recentMessages, basePrompt,
                normativeBlock, updatedAt)

\* loadMemory(agentId) returns an object: the file exists and JSON.parse
\* makes an object of it
Loaded == files.memory.kind = "state"

\* this.state after load(): the object loadMemory returned, or as before
StateAfterLoad == IF Loaded THEN files.memory.value ELSE CurrentState

\* this.state = st
Adopt(st) ==
    /\ persona' = st.persona
    /\ laneSummaries' = st.laneSummaries
    /\ recentMessages' = st.recentMessages
    /\ basePrompt' = st.basePrompt
    /\ normativeBlock' = st.normativeBlock
    /\ updatedAt' = st.updatedAt

\* load()
Load ==
    /\ Adopt(StateAfterLoad)
    /\ op' = [NoCall EXCEPT !.name = "load",
                            !.ret = IF Loaded THEN "true" ELSE "false"]
    /\ UNCHANGED <<server, files, config, turnCounter, lastReflectTurn, now, round>>

\* save(), new Date() giving t: saveMemory stamps this.state.updatedAt
\* and writes memory.json, unless the write fails with an I/O error
Save(t, written) ==
    /\ t \in DateNow
    /\ now' = t
    /\ updatedAt' = t
    /\ files' = IF written
                THEN [files EXCEPT !.memory =
                        [kind |-> "state",
                         value |-> [CurrentState EXCEPT !.updatedAt = t]]]
                ELSE files
    /\ op' = [NoCall EXCEPT !.name = "save",
                            !.error = IF written THEN "" ELSE "IOError"]
    /\ UNCHANGED <<server, config, recentMessages, laneSummaries, persona, basePrompt,
                   normativeBlock, turnCounter, lastReflectTurn, round>>

\* the base prompt the handler of memory_load leaves: base_prompt when
\* nothing was loaded and it is not empty; then the content of
\* commandments.md when the file exists and the base prompt is empty
BasePromptAfterLoad(base_prompt) ==
    LET given == IF ~Loaded /\ base_prompt # ""
                 THEN base_prompt ELSE StateAfterLoad.basePrompt
    IN IF files.commandments.exists /\ given = ""
       THEN files.commandments.content ELSE given

\* the handler of memory_load with the argument base_prompt ("" when the
\* argument is left out)
MemoryLoad(base_prompt) ==
    /\ Adopt([StateAfterLoad EXCEPT
                !.basePrompt = BasePromptAfterLoad(base_prompt)])
    /\ op' = [NoCall EXCEPT !.name = "memory_load", !.text = base_prompt,
                            !.existing = basePrompt,
                            !.ret = IF Loaded THEN "true" ELSE "false"]
    /\ UNCHANGED <<server, files, config, turnCounter, lastReflectTurn, now, round>>

---------------------------------------------------------------------------
(* The server *)

\* the manager the variables hold, as one object
ThisManager ==
    [ created |-> TRUE, config |-> config, state |-> CurrentState,
      turnCounter |-> turnCounter, lastReflectTurn |-> lastReflectTurn ]

\* new MemoryManager(agentId)
NewManager ==
    [ created |-> TRUE, config |-> DEFAULT_CONFIG, state |-> EmptyState,
      turnCounter |-> 0, lastReflectTurn |-> 0 ]

\* the manager of the agent id, NoManager before its first call
ManagerOf(id) ==
    IF id = server.agentId THEN ThisManager ELSE server.managers[id]

\* the variables take the fields of the manager m
Hold(m) ==
    /\ config' = m.config
    /\ Adopt(m.state)
    /\ turnCounter' = m.turnCounter
    /\ lastReflectTurn' = m.lastReflectTurn

\* getManager(agentId) with a map that keeps one manager only: the
\* manager of the last call is not kept
GetManagerForgetting(agentId) ==
    /\ agentId # server.agentId
    /\ ~server.loading.awaiting
    /\ server' = [server EXCEPT !.agentId = agentId]
    /\ Hold(IF server.managers[agentId] = NoManager
            THEN NewManager ELSE server.managers[agentId])
    /\ op' = [NoCall EXCEPT !.name = "getManager", !.arg = agentId]
    /\ UNCHANGED <<files, now, round>>

\* getManager(agentId) at the start of a tool call for another agent id
\* than the last call: the manager of the last call stays in the map, the
\* manager of agentId is taken from the map, made first when the map has
\* none
GetManager(agentId) ==
    /\ agentId # server.agentId
    /\ ~server.loading.awaiting
    /\ server' = [server EXCEPT
                    !.agentId = agentId,
                    !.managers = [@ EXCEPT ![server.agentId] = ThisManager]]
    /\ Hold(IF server.managers[agentId] = NoManager
            THEN NewManager ELSE server.managers[agentId])
    /\ op' = [NoCall EXCEPT !.name = "getManager", !.arg = agentId]
    /\ UNCHANGED <<files, now, round>>

\* the handler of memory_load up to its first await that waits for I/O,
\* the readFile of memory.json in loadMemory: where the file is absent
\* load() returns without such a wait
MemoryLoadBegin(base_prompt) ==
    /\ files.memory.kind # "absent"
    /\ ~server.loading.awaiting
    /\ server' = [server EXCEPT
                    !.loading = [awaiting |-> TRUE,
                                 base_prompt |-> base_prompt]]
    /\ op' = [NoCall EXCEPT !.name = "readFile", !.text = base_prompt]
    /\ UNCHANGED <<files, updatedAt, config, recentMessages, laneSummaries,
                   persona, basePrompt, normativeBlock, turnCounter,
                   lastReflectTurn, now, round>>

\* the handler of memory_load from the end of that await on: the rest of
\* loadMemory and load(), then the base prompt, the read of
\* commandments.md taken together with it
MemoryLoadEnd ==
    /\ server.loading.awaiting
    /\ Adopt([StateAfterLoad EXCEPT
                !.basePrompt = BasePromptAfterLoad(server.loading.base_prompt)])
    /\ op' = [NoCall EXCEPT !.name = "memory_load",
                            !.text = server.loading.base_prompt,
                            !.existing = basePrompt,
                            !.ret = IF Loaded THEN "true" ELSE "false"]
    /\ server' = [server EXCEPT !.loading = NoLoad]
    /\ UNCHANGED <<files, config, turnCounter, lastReflectTurn, now, round>>

---------------------------------------------------------------------------
(* The rendered context *)

RECURSIVE Join(_, _)
\* parts.join(sep)
Join(parts, sep) ==
    IF Len(parts) = 0 THEN ""
    ELSE IF Len(parts) = 1 THEN parts[1]
    ELSE parts[1] \o sep \o Join(Tail(parts), sep)

\* the texts of parts that are not empty: what if (text) parts.push(...)
\* and .filter(Boolean) keep
NonEmpty(parts) == SelectSeq(parts, LAMBDA x : x # "")

\* sect(title, items)
sect(title, items) ==
    IF Len(items) = 0 THEN ""
    ELSE title \o ": " \o Join([i \in DOMAIN items |-> items[i].text], "; ")

\* renderPersonaBlock() left out while the persona has no facet
renderPersonaBlockIfFacets ==
    IF \A c \in Categories : persona[c] = <<>> THEN ""
    ELSE Join(NonEmpty(<< "[DYNAMIC PERSONA v" \o ToString(persona.version) \o "]",
                          sect("Roles", persona.roles),
                          sect("Style", persona.style),
                          sect("Heuristics", persona.heuristics),
                          sect("Goals", persona.goals),
                          sect("Avoid", persona.antigoals) >>), "\n")

\* renderPersonaBlock()
renderPersonaBlock ==
    IF persona.version = 0 THEN ""
    ELSE Join(NonEmpty(<< "[DYNAMIC PERSONA v" \o ToString(persona.version) \o "]",
                          sect("Roles", persona.roles),
                          sect("Style", persona.style),
                          sect("Heuristics", persona.heuristics),
                          sect("Goals", persona.goals),
                          sect("Avoid", persona.antigoals) >>), "\n")

\* a section of renderContext(): its header and text, or nothing
Section(header, text) == IF text = "" THEN "" ELSE header \o "\n" \o text

\* renderContext()
renderContext ==
    Join(NonEmpty(<< Section("[BASE IDENTITY]", basePrompt),
                     Section("[NORMATIVE POLICY]", normativeBlock),
                     renderPersonaBlock,
                     Section("[ASSISTANT HISTORY SUMMARY]", laneSummaries.assistant),
                     Section("[SYSTEM HISTORY SUMMARY]", laneSummaries.system),
                     Section("[USER HISTORY SUMMARY]", laneSummaries.user) >>),
         SEP)

\* a call of renderContext() that counts as a turn
RenderContextCounting ==
    /\ op' = [NoCall EXCEPT !.name = "renderContext", !.ret = renderContext]
    /\ turnCounter' = turnCounter + 1
    /\ UNCHANGED <<server, files, updatedAt, config, recentMessages, laneSummaries,
                   persona, basePrompt, normativeBlock, lastReflectTurn, now,
                   round>>

\* a call of renderContext()
RenderContext ==
    /\ op' = [NoCall EXCEPT !.name = "renderContext", !.ret = renderContext]
    /\ UNCHANGED <<server, files, updatedAt, config, recentMessages, laneSummaries,
                   persona, basePrompt, normativeBlock, turnCounter,
                   lastReflectTurn, now, round>>

---------------------------------------------------------------------------
(* The message buffer: every role, the clock ticking or not before a    *)
(* message is added, summaries that stay empty                          *)

Contents == {"hi", "ok"}

InitBuffer == InitWith({WithOverrides(1), WithOverrides(2)})

NextBuffer ==
    \/ \E r \in Roles, t \in 0..MaxTime : AddMessage(r, "hi", t)
    \/ \E l \in Lanes : ApplyLaneSummary(l, "", now)

SpecBuffer == InitBuffer /\ [][NextBuffer]_vars

---------------------------------------------------------------------------
(* The lanes read for summarization: every role and content, all calls  *)
(* within one millisecond                                               *)

NextLane ==
    \/ \E r \in Roles, c \in Contents : AddMessage(r, c, now)
    \/ \E l \in Lanes : GetLaneForSummarization(l)
    \/ \E l \in Lanes : ApplyLaneSummary(l, "", now)

SpecLane == InitBuffer /\ [][NextLane]_vars

---------------------------------------------------------------------------
(* The lane summaries: every mutating call, one role and one content *)

Summaries == {"", "S"}

\* a fixed-point weight from a percentage
Weight(percent) == (percent * SCALE) \div 100

Facet(text, percent) == [text |-> text, weight |-> Weight(percent)]

\* an update whose persona names the categories cs, each with items
UpdateOf(cs, items) == [persona |-> [c \in cs |-> items]]

InitSummary == InitWith({WithOverrides(1)})

NextSummary ==
    \/ AddMessage("user", "hi", now)
    \/ \E l \in Lanes, x \in Summaries : ApplyLaneSummary(l, x, now)
    \/ ApplyPersonaUpdate(UpdateOf({"roles"}, <<Facet("helper", 50)>>))
    \/ SetBasePrompt("B")
    \/ SetNormativeBlock("N")

SpecSummary == InitSummary /\ [][NextSummary]_vars

---------------------------------------------------------------------------
(* The token budget: the default configuration, every role, a short and *)
(* a long content, summaries that stay empty                            *)

RECURSIVE Doubled(_, _)
\* the text repeated 2^k times
Doubled(text, k) ==
    IF k = 0 THEN text
    ELSE LET half == Doubled(text, k - 1) IN half \o half

\* a content of 8192 characters
LongContent == Doubled("x", 13)

InitBudget == InitWith({DEFAULT_CONFIG})

NextBudget ==
    \/ \E r \in Roles, c \in {"hi", LongContent} : AddMessage(r, c, now)
    \/ \E l \in Lanes : ApplyLaneSummary(l, "", now)

SpecBudget == InitBudget /\ [][NextBudget]_vars

---------------------------------------------------------------------------
(* The persona: the default configuration, updates that name no category, *)
(* roles alone or all five categories                                     *)

ItemLists ==
    { <<Facet("helper", 100), Facet("b", 50), Facet("c", 100)>>,
      <<Facet("d", 50), Facet("e", 100), Facet("f", 50)>>,
      <<Facet("g", 100), Facet("h", 100), Facet("i", 50)>>,
      <<Facet("Helper", 50), Facet(" helper ", 100), Facet("B ", 0)>>,
      <<>> }

Updates ==
    { UpdateOf(cs, items) : cs \in {{}, {"roles"}, Categories},
                            items \in ItemLists }

InitPersona == InitWith({DEFAULT_CONFIG})

NextPersona ==
    \/ \E u \in Updates : ApplyPersonaUpdate(u)
    \/ AddMessage("user", "hi", now)

SpecPersona == InitPersona /\ [][NextPersona]_vars

---------------------------------------------------------------------------
(* The tools of one agent: the manager of the server, which has the     *)
(* default configuration, in a directory without memory.json and with   *)
(* or without commandments.md                                           *)

\* the values of the argument base_prompt, "" when it is left out
BasePrompts == {"", "B", "B2"}

ServerDirs ==
    { [memory |-> NoMemoryFile, commandments |-> c] :
        c \in {NoCommandments, [exists |-> TRUE, content |-> "C"]} }

InitServer == InitWithFiles({DEFAULT_CONFIG}, ServerDirs)

NextServer ==
    \/ \E b \in BasePrompts : MemoryLoad(b)
    \/ \E written \in BOOLEAN : Save(now, written)
    \/ AddMessage("user", "hi", now)
    \/ ApplyLaneSummary("user", "S", now)
    \/ ApplyPersonaUpdate(UpdateOf({"roles"}, <<Facet("helper", 50)>>))
    \/ SetNormativeBlock("N")

SpecServer == InitServer /\ [][NextServer]_vars

---------------------------------------------------------------------------
(* The merge of one facet: three values of mergeAggressiveness, a        *)
(* memory.json with one role facet of weight 0.8, updates of one facet   *)
(* for one category                                                      *)

\* constructor: a config that sets mergeAggressiveness
WithAggressiveness(percent) ==
    [DEFAULT_CONFIG EXCEPT !.mergeAggressiveness = Weight(percent)]

\* a saved state whose persona has the role facet helper at 0.8
HelperState ==
    [EmptyState EXCEPT
        !.persona = [EmptyPersona EXCEPT
            !.version = 1, !.roles = <<Facet("helper", 80)>>]]

MergeDirs ==
    { [memory |-> [kind |-> "state", value |-> HelperState],
       commandments |-> NoCommandments] }

MergeItems ==
    { Facet("Helper", 50), Facet("x", 0), Facet("x", 14), Facet("x", 100),
      Facet("y", 50) }

MergeUpdates ==
    { UpdateOf({c}, <<item>>) : c \in {"roles", "goals"}, item \in MergeItems }

InitMerge ==
    InitWithFiles({DEFAULT_CONFIG, WithAggressiveness(30), WithAggressiveness(0)},
                  MergeDirs)

NextMerge ==
    \/ Load
    \/ \E u \in MergeUpdates : ApplyPersonaUpdate(u)

SpecMerge == InitMerge /\ [][NextMerge]_vars

---------------------------------------------------------------------------
(* Reflection: three values of minReflectGapTurns, with and without a   *)
(* memory.json to load                                                  *)

\* constructor: a config that sets minReflectGapTurns
WithReflectGap(turns) == [DEFAULT_CONFIG EXCEPT !.minReflectGapTurns = turns]

ReflectDirs == MergeDirs \cup {NoFiles}

InitReflect ==
    InitWithFiles({WithReflectGap(1), WithReflectGap(2), DEFAULT_CONFIG},
                  ReflectDirs)

NextReflect ==
    \/ AddMessage("user", "hi", now)
    \/ ApplyPersonaUpdate(UpdateOf({"roles"}, <<Facet("helper", 50)>>))
    \/ ApplyLaneSummary("user", "", now)
    \/ Load

SpecReflect == InitReflect /\ [][NextReflect]_vars

---------------------------------------------------------------------------
(* The estimate at the threshold: the default configuration, one content *)
(* that brings the estimate to 5734 tokens, short texts on top of it     *)

RECURSIVE Repeated(_, _)
\* the text repeated n times
Repeated(text, n) ==
    IF n = 0 THEN ""
    ELSE LET half == Repeated(text, n \div 2)
         IN half \o half \o (IF n % 2 = 1 THEN text ELSE "")

\* the largest estimate that is not over contextTokens * highRatio under
\* the defaults: 5734 tokens
ThresholdTokens ==
    (DEFAULT_CONFIG.contextTokens * DEFAULT_CONFIG.highRatio) \div SCALE

\* a content that, as the only message, makes an estimate of exactly
\* ThresholdTokens: 22904 characters
ThresholdContent ==
    Repeated("x", ThresholdTokens * DEFAULT_CONFIG.avgCharsPerToken
                  - MessageOverhead)

InitEstimate == InitWith({DEFAULT_CONFIG})

NextEstimate ==
    \/ \E c \in {"x", ThresholdContent} : AddMessage("user", c, now)
    \/ SetBasePrompt("B")
    \/ SetNormativeBlock("N")
    \/ ApplyLaneSummary("system", "S", now)

SpecEstimate == InitEstimate /\ [][NextEstimate]_vars

---------------------------------------------------------------------------
(* The messages read for reflection: every role and content, requests   *)
(* for no message up to as many as the buffer can hold                  *)

NextRecent ==
    \/ \E r \in Roles, c \in Contents : AddMessage(r, c, now)
    \/ \E n \in 0..MaxTurns : GetRecentForReflection(n)
    \/ ApplyLaneSummary("user", "", now)

SpecRecent == InitBuffer /\ [][NextRecent]_vars

---------------------------------------------------------------------------
(* Loading: a directory where memory.json is absent, is no JSON, is the  *)
(* text null, holds a saved state, or holds a state whose persona breaks *)
(* the bounds of the data model                                          *)

\* a state object with four role facets, one of them of weight 1.5
OutOfRangeState ==
    [EmptyState EXCEPT
        !.persona = [EmptyPersona EXCEPT
            !.version = 1,
            !.roles = <<Facet("a", 150), Facet("b", 50), Facet("c", 50),
                        Facet("d", 50)>>]]

LoadDirs ==
    { [memory |-> m, commandments |-> NoCommandments] :
        m \in { NoMemoryFile,
                [kind |-> "garbage", value |-> EmptyState],
                [kind |-> "null", value |-> EmptyState],
                [kind |-> "state", value |-> HelperState],
                [kind |-> "state", value |-> OutOfRangeState] } }

InitLoad == InitWithFiles({DEFAULT_CONFIG}, LoadDirs)

NextLoad ==
    \/ Load
    \/ \E written \in BOOLEAN : Save(now, written)
    \/ AddMessage("user", "hi", now)
    \/ ApplyPersonaUpdate(UpdateOf({"roles"}, <<Facet("helper", 50)>>))

SpecLoad == InitLoad /\ [][NextLoad]_vars

---------------------------------------------------------------------------
(* Roles and lanes the types do not allow: the handlers pass the        *)
(* arguments of a tool call on without a check                          *)

\* the role arguments: two roles and a text that is no role
RoleArguments == {"user", "tool", "bot"}

\* the lane arguments: a lane, the role that is no lane, and a text that
\* is neither
LaneArguments == {"user", "tool", "bot"}

NextUnknown ==
    \/ \E r \in RoleArguments : AddMessage(r, "hi", now)
    \/ \E l \in LaneArguments : GetLaneForSummarization(l)
    \/ \E l \in {"user", "bot"} : ApplyLaneSummary(l, "S", now)

SpecUnknown == InitSummary /\ [][NextUnknown]_vars

---------------------------------------------------------------------------
(* The rendered context: every text that enters it set or left empty,   *)
(* updates of one and of two categories                                 *)

RenderUpdates ==
    { UpdateOf({"roles"}, <<Facet("helper", 50), Facet("guide", 100)>>),
      UpdateOf({"goals", "antigoals"}, <<Facet("x", 100)>>) }

NextRender ==
    \/ RenderContext
    \/ SetBasePrompt("B")
    \/ SetNormativeBlock("N")
    \/ \E u \in RenderUpdates : ApplyPersonaUpdate(u)
    \/ \E l \in Lanes : ApplyLaneSummary(l, "S", now)

SpecRender == InitSummary /\ [][NextRender]_vars

---------------------------------------------------------------------------
(* The sections of the rendered context: every text that enters it set  *)
(* or left empty, updates that name no category and updates of one      *)

SectionUpdates ==
    { UpdateOf({}, <<>>), UpdateOf({"roles"}, <<Facet("helper", 50)>>) }

NextSections ==
    \/ RenderContext
    \/ SetBasePrompt("B")
    \/ SetNormativeBlock("N")
    \/ \E u \in SectionUpdates : ApplyPersonaUpdate(u)
    \/ \E l \in Lanes : ApplyLaneSummary(l, "S", now)

SpecSections == InitSummary /\ [][NextSections]_vars

---------------------------------------------------------------------------
(* Calls that fail: a configuration under which every update takes nine *)
(* tenths off the weights and a full boost brings them to 1, updates    *)
(* without persona and with a facet without text next to a well-formed *)
(* one, a role the types do not allow                                  *)

\* constructor: a config that sets decayPerPass and mergeAggressiveness
WithDecay(decay, aggressiveness) ==
    [DEFAULT_CONFIG EXCEPT !.decayPerPass = Weight(decay),
                           !.mergeAggressiveness = Weight(aggressiveness)]

\* a facet as an update may carry it when its text is left out
FacetWithoutText(percent) == [weight |-> Weight(percent)]

FailingUpdates ==
    { UpdateOf({"roles"}, <<Facet("helper", 50)>>),
      [friction |-> 0, confidence |-> SCALE],
      UpdateOf({"roles"}, <<Facet("guide", 0), FacetWithoutText(100)>>),
      [persona |-> [roles |-> <<Facet("helper", 100)>>,
                    style |-> <<FacetWithoutText(100)>>]] }

InitFailing == InitWith({WithDecay(90, 100)})

NextFailing ==
    \/ \E u \in FailingUpdates : ApplyPersonaUpdate(u)
    \/ AddMessage("bot", "hi", now)
    \/ GetLaneForSummarization("user")
    \/ ApplyLaneSummary("user", "S", now)

SpecFailing == InitFailing /\ [][NextFailing]_vars

---------------------------------------------------------------------------
(* Decay: the default configuration and one under which weights halve   *)
(* at every update, updates of one facet for roles, style or goals      *)

DecayUpdates ==
    { UpdateOf({"roles"}, <<Facet("helper", 100)>>),
      UpdateOf({"roles"}, <<Facet("helper", 50)>>),
      UpdateOf({"style"}, <<Facet("x", 100)>>),
      UpdateOf({"goals"}, <<Facet("g", 50)>>) }

InitDecay == InitWith({DEFAULT_CONFIG, WithDecay(50, 60)})

NextDecay ==
    \/ \E u \in DecayUpdates : ApplyPersonaUpdate(u)
    \/ AddMessage("user", "hi", now)

SpecDecay == InitDecay /\ [][NextDecay]_vars

---------------------------------------------------------------------------
(* The tools of two agents: every call that changes a manager for the   *)
(* first agent id, memory_add_message alone for the second, summaries   *)
(* long enough for each lane to take one                                *)

InitAgents == InitWith({DEFAULT_CONFIG})

NextAgents ==
    \/ \E id \in AgentIds : GetManager(id)
    \/ AddMessage("user", "hi", now)
    \/ \E l \in Lanes :
            server.agentId = "a" /\ ApplyLaneSummary(l, "SSSSS", now)
    \/ /\ server.agentId = "a"
       /\ ApplyPersonaUpdate(UpdateOf({"roles"}, <<Facet("helper", 50)>>))

SpecAgents == InitAgents /\ [][NextAgents]_vars

---------------------------------------------------------------------------
(* Calls during a load: a memory.json that holds a saved state or is no *)
(* JSON, a memory_load that awaits its read while the other handlers    *)
(* run                                                                  *)

AwaitDirs ==
    { [memory |-> m, commandments |-> NoCommandments] :
        m \in { [kind |-> "garbage", value |-> EmptyState],
                [kind |-> "state", value |-> HelperState] } }

InitAwait == InitWithFiles({DEFAULT_CONFIG}, AwaitDirs)

NextAwait ==
    \/ \E b \in {"", "B"} : MemoryLoadBegin(b)
    \/ MemoryLoadEnd
    \/ AddMessage("user", "hi", now)
    \/ ApplyLaneSummary("user", "S", now)
    \/ ApplyPersonaUpdate(UpdateOf({"roles"}, <<Facet("helper", 50)>>))

SpecAwait == InitAwait /\ [][NextAwait]_vars

---------------------------------------------------------------------------
(* Statements about the message buffer *)

\* how often the message m occurs in msgs
Count(msgs, m) == Cardinality({ i \in DOMAIN msgs : msgs[i] = m })

\* how many messages of msgs have the role r
CountRole(msgs, r) == Cardinality({ i \in DOMAIN msgs : msgs[i].role = r })

\* the messages of msgs behind position i that have the role of msgs[i]
LaterOfRole(msgs, i) ==
    { j \in DOMAIN msgs : j > i /\ msgs[j].role = msgs[i].role }

\* the positions of the last n messages of each role
TailPositions(msgs, n) ==
    { i \in DOMAIN msgs : Cardinality(LaterOfRole(msgs, i)) < n }

\* the positions of the messages of the lane that are not among its last n
OlderPositions(msgs, lane, n) ==
    { i \in DOMAIN msgs :
        msgs[i].role = lane /\ Cardinality(LaterOfRole(msgs, i)) >= n }

LaneHeader(lane) ==
    CASE lane = "assistant" -> "- ASSISTANT: "
      [] lane = "user"      -> "- USER: "
      [] lane = "system"    -> "- SYSTEM: "

RECURSIVE TextOf(_, _, _, _)
\* one bullet for each message of msgs at a position of P from i on, in
\* buffer order, a blank line between two bullets
TextOf(msgs, lane, P, i) ==
    IF i > Len(msgs) THEN ""
    ELSE IF i \notin P THEN TextOf(msgs, lane, P, i + 1)
    ELSE IF \E j \in P : j > i
         THEN LaneHeader(lane) \o msgs[i].content \o "\n\n"
              \o TextOf(msgs, lane, P, i + 1)
         ELSE LaneHeader(lane) \o msgs[i].content

\* msgs holds the messages at the positions P of old, each as often
SameMessages(msgs, old, P) ==
    /\ Len(msgs) = Cardinality(P)
    /\ \A m \in { old[i] : i \in DOMAIN old } :
         Count(msgs, m) = Cardinality({ j \in P : old[j] = m })

\* C1: after any applyLaneSummary(lane, summary) the buffer holds exactly
\* the last keepRecentPerLane messages of each of the four roles of the
\* buffer before the call, so at most keepRecentPerLane messages of a role
\* and at most 4 * keepRecentPerLane messages in all
C1_TailsOfEveryRole ==
    [][op'.name = "applyLaneSummary" =>
        /\ LET tails == TailPositions(recentMessages, config.keepRecentPerLane)
           IN SameMessages(recentMessages', recentMessages, tails)
        /\ \A r \in Roles :
             CountRole(recentMessages', r) <= config.keepRecentPerLane
        /\ Len(recentMessages') <= 4 * config.keepRecentPerLane]_vars

\* applyLaneSummary on a lane that holds no message has cut two other
\* roles to their tails: only addMessage adds and only applyLaneSummary
\* removes, so the buffer being shorter than the turn counter shows a cut
C1_Witness ==
    /\ op.name = "applyLaneSummary"
    /\ op.arg = "system"
    /\ CountRole(recentMessages, "system") = 0
    /\ CountRole(recentMessages, "user") = config.keepRecentPerLane
    /\ CountRole(recentMessages, "tool") = config.keepRecentPerLane
    /\ turnCounter = Len(recentMessages) + 2

\* the tool messages of msgs, in buffer order
ToolMessages(msgs) == SelectSeq(msgs, LAMBDA m : m.role = "tool")

\* the text is made of messages of msgs none of which is a tool message
NoToolMessageIn(text, msgs, lane) ==
    \E P \in SUBSET { i \in DOMAIN msgs : msgs[i].role # "tool" } :
        text = TextOf(msgs, lane, P, 1)

\* C2 as claimed: no getLaneForSummarization output contains a tool
\* message and no applyLaneSummary removes a tool message
C2_Original ==
    [][/\ op'.name = "getLaneForSummarization" =>
            NoToolMessageIn(op'.ret, recentMessages, op'.arg)
       /\ op'.name = "applyLaneSummary" =>
            ToolMessages(recentMessages') = ToolMessages(recentMessages)]_vars

\* C2 as amended: no getLaneForSummarization output contains a tool
\* message, and applyLaneSummary keeps the last keepRecentPerLane tool
\* messages and removes every older one
C2_ToolNeverSummarized ==
    [][/\ op'.name = "getLaneForSummarization" =>
            NoToolMessageIn(op'.ret, recentMessages, op'.arg)
       /\ op'.name = "applyLaneSummary" =>
            LET tools == ToolMessages(recentMessages)
                n == Min(Len(tools), config.keepRecentPerLane)
            IN ToolMessages(recentMessages')
                 = SubSeq(tools, Len(tools) - n + 1, Len(tools))]_vars

\* only tool messages were ever added (a role that has a message keeps
\* one), and applyLaneSummary has left the last keepRecentPerLane of them
C2_Witness ==
    /\ op.name = "applyLaneSummary"
    /\ \A i \in DOMAIN recentMessages : recentMessages[i].role = "tool"
    /\ Len(recentMessages) = config.keepRecentPerLane
    /\ turnCounter > Len(recentMessages)

\* C3: getLaneForSummarization(lane) returns one bullet for each message
\* of the lane except its last keepRecentPerLane, in buffer order, the
\* empty text when the lane has at most keepRecentPerLane messages, no
\* message of another role, and changes nothing
C3_OlderSliceOfLane ==
    [][op'.name = "getLaneForSummarization" =>
        /\ op'.ret = TextOf(recentMessages, op'.arg,
              OlderPositions(recentMessages, op'.arg, config.keepRecentPerLane), 1)
        /\ (CountRole(recentMessages, op'.arg) <= config.keepRecentPerLane
              => op'.ret = "")
        /\ UNCHANGED <<files, updatedAt, config, recentMessages, laneSummaries, persona,
                       basePrompt, normativeBlock, turnCounter,
                       lastReflectTurn, now, round>>]_vars

\* two user and two assistant messages with keepRecentPerLane = 1: the
\* lane user gives the older user message alone
C3_Witness ==
    /\ op.name = "getLaneForSummarization"
    /\ op.arg = "user"
    /\ config.keepRecentPerLane = 1
    /\ CountRole(recentMessages, "user") = 2
    /\ CountRole(recentMessages, "assistant") = 2
    /\ op.ret = "- USER: hi"

---------------------------------------------------------------------------
(* Statements about the lane summaries and the token budget *)

\* this step is applyLaneSummary on the lane the call before it was
\* applied to, and that call found the lane's summary empty
SecondOfTwo ==
    /\ op.name = "applyLaneSummary"
    /\ op.existing = ""
    /\ op'.name = "applyLaneSummary"
    /\ op'.arg = op.arg

\* C4 as claimed: for every summary1 and summary2, the empty text
\* included, applyLaneSummary(lane, summary1) and then
\* applyLaneSummary(lane, summary2) on a lane whose summary was empty
\* leave summary2 + "\n\n---\n\n" + summary1
C4_Original ==
    [][SecondOfTwo =>
        laneSummaries'[op'.arg] = op'.text \o "\n\n---\n\n" \o op.text]_vars

\* C4 as amended: the two calls leave summary2 + "\n\n---\n\n" + summary1
\* when summary1 is not empty, and summary2 alone when summary1 is empty
C4_NewestFirst ==
    [][SecondOfTwo =>
        laneSummaries'[op'.arg] =
            IF op.text # ""
            THEN op'.text \o "\n\n---\n\n" \o op.text
            ELSE op'.text]_vars

\* "S" and then the empty text were applied to the lane user
C4_Witness ==
    /\ op.name = "applyLaneSummary"
    /\ op.arg = "user"
    /\ op.text = ""
    /\ op.existing = "S"
    /\ laneSummaries.user = "\n\n---\n\nS"

\* the text ends with the text tail
EndsWith(text, tail) ==
    /\ Len(tail) <= Len(text)
    /\ SubSeq(text, Len(text) - Len(tail) + 1, Len(text)) = tail

\* C5: across every addMessage, applyLaneSummary, applyPersonaUpdate,
\* setBasePrompt and setNormativeBlock the text a lane's summary had is
\* the end of the text it has, and applyLaneSummary(lane, s) changes the
\* summary of no other lane
C5_SummariesOnlyGrow ==
    [][/\ \A l \in Lanes : EndsWith(laneSummaries'[l], laneSummaries[l])
       /\ op'.name = "applyLaneSummary" =>
            \A l \in Lanes \ {op'.arg} : laneSummaries'[l] = laneSummaries[l]]_vars

\* two lanes hold summaries, one of them two blocks, and a call of each
\* of the other kinds has followed or come before
C5_Witness ==
    /\ laneSummaries.user = "S\n\n---\n\nS"
    /\ laneSummaries.system = "S"
    /\ laneSummaries.assistant = ""
    /\ persona.version > 0
    /\ basePrompt = "B"
    /\ normativeBlock = "N"
    /\ turnCounter > 0
    /\ op.name = "addMessage"

\* C6 as claimed: once applyLaneSummary has been applied to each of the
\* three lanes after needsSummarization() was true, needsSummarization()
\* is false
C6_Original ==
    (round.needed /\ round.lanes = Lanes) => ~needsSummarization

---------------------------------------------------------------------------
(* Statements about the persona *)

\* the facets of the category are in the order of their weights,
\* heaviest first
HeaviestFirst(arr) ==
    \A i, j \in DOMAIN arr : i < j => arr[i].weight >= arr[j].weight

\* C7: after any applyPersonaUpdate each category has at most its cap of
\* facets (roles 3, style 6, heuristics 8, goals 4, antigoals 6), sorted
\* by descending weight
C7_CappedAndSorted ==
    /\ Len(persona.roles) <= 3
    /\ Len(persona.style) <= 6
    /\ Len(persona.heuristics) <= 8
    /\ Len(persona.goals) <= 4
    /\ Len(persona.antigoals) <= 6
    /\ \A c \in Categories : HeaviestFirst(persona[c])

\* nine traits were given to every category: each is cut to its cap
C7_Witness ==
    /\ op.name = "applyPersonaUpdate"
    /\ Len(persona.roles) = 3
    /\ Len(persona.style) = 6
    /\ Len(persona.heuristics) = 8
    /\ Len(persona.goals) = 4
    /\ Len(persona.antigoals) = 6
    /\ \E i \in DOMAIN persona.heuristics :
         persona.heuristics[i].weight < persona.heuristics[1].weight

\* C8: from the empty state, after any applyPersonaUpdate calls, no
\* category holds two facets whose texts are equal after lower-casing
\* and trimming
C8_UniqueTexts ==
    \A c \in Categories : \A i, j \in DOMAIN persona[c] :
        KeyOf(persona[c][i].text) = KeyOf(persona[c][j].text) => i = j

\* "helper", then "Helper" and " helper " in one update: one facet, with
\* the text first given, boosted twice
C8_Witness ==
    /\ persona.version = 2
    /\ Len(persona.roles) = 3
    /\ persona.roles[1].text = "helper"
    /\ persona.roles[1].weight > Weight(85)

\* C9: for updates with weights in [0,1] every stored weight lies in
\* [0,1], and after each applyPersonaUpdate every stored weight is at
\* least minKeepWeight
C9_WeightsInRange ==
    \A c \in Categories : \A i \in DOMAIN persona[c] :
        /\ persona[c][i].weight >= 0
        /\ persona[c][i].weight <= SCALE
        /\ persona[c][i].weight >= config.minKeepWeight

\* "Helper" was added and boosted; "B " with weight 0 would have entered
\* at 0.15 and is not stored
C9_Witness ==
    /\ op.name = "applyPersonaUpdate"
    /\ persona.version = 1
    /\ Len(persona.style) = 1
    /\ persona.style[1].text = "Helper"
    /\ persona.style[1].weight = Weight(76)

\* C10: every applyPersonaUpdate adds one to persona.version, sets
\* persona.lastUpdatedTurn and the last reflection turn to the turn
\* counter and returns true, also when the update names no category
C10_VersionAndTurns ==
    [][op'.name = "applyPersonaUpdate" =>
        /\ persona'.version = persona.version + 1
        /\ persona'.lastUpdatedTurn = turnCounter
        /\ lastReflectTurn' = turnCounter
        /\ turnCounter' = turnCounter
        /\ op'.ret = "true"]_vars

\* two updates that changed no category, the second at turn 3
C10_Witness ==
    /\ op.name = "applyPersonaUpdate"
    /\ persona.version = 2
    /\ \A c \in Categories : persona[c] = <<>>
    /\ persona.lastUpdatedTurn = 3
    /\ lastReflectTurn = 3
    /\ turnCounter = 3

---------------------------------------------------------------------------
(* Statements about the merge of one facet *)

\* a * b for weights in units of 1/SCALE, rounded to the nearest unit
Product(a, b) == (a * b + SCALE \div 2) \div SCALE

\* the weight w after the decay of one update
Decayed(w) == Product(w, SCALE - config.decayPerPass)

\* 1 - (1 - decayed weight) * (1 - item.weight * mergeAggressiveness),
\* at most 1
BoostOf(w, item) ==
    Min(SCALE, SCALE - Product(SCALE - Decayed(w),
                     SCALE - Product(item.weight, config.mergeAggressiveness)))

\* min(1, item.weight * 0.5 + 0.15)
InsertOf(item) == Min(SCALE, Product(item.weight, SCALE \div 2) + Weight(15))

\* the category an update of one category names, and its one facet
CategoryOf(update) == CHOOSE c \in DOMAIN update.persona : TRUE
ItemOf(update) == update.persona[CategoryOf(update)][1]

\* the positions of arr whose facet has the normalized text of item
Matches(arr, item) ==
    { i \in DOMAIN arr : KeyOf(arr[i].text) = KeyOf(item.text) }

\* the facet f is in arr
Holds(arr, f) == \E j \in DOMAIN arr : arr[j] = f

\* C12: in applyPersonaUpdate an incoming facet whose normalized text
\* matches a facet of the category adds no facet and leaves that facet,
\* with its text, at 1 - (1 - decayed weight) * (1 - item.weight *
\* mergeAggressiveness) when that is at least minKeepWeight; an incoming
\* facet without a match is in the category with weight
\* min(1, item.weight * 0.5 + 0.15), whatever mergeAggressiveness is, when
\* that is at least minKeepWeight and the category was not full
C12_BoostOrInsert ==
    [][op'.name = "applyPersonaUpdate" =>
        LET c == CategoryOf(op'.update)
            item == ItemOf(op'.update)
            old == persona[c]
            found == Matches(old, item)
        IN IF found # {}
           THEN LET i == CHOOSE k \in found : \A j \in found : k <= j
                    boosted == [text |-> old[i].text,
                                weight |-> BoostOf(old[i].weight, item)]
                IN /\ Len(persona'[c]) <= Len(old)
                   /\ Cardinality(Matches(persona'[c], item)) <= 1
                   /\ boosted.weight >= config.minKeepWeight
                        => Holds(persona'[c], boosted)
           ELSE LET inserted == [text |-> item.text, weight |-> InsertOf(item)]
                IN inserted.weight >= config.minKeepWeight
                   /\ Len(old) < Cap[c]
                     => /\ Holds(persona'[c], inserted)
                        /\ Len(persona'[c]) <= Len(old) + 1]_vars

\* the example of the specification: helper at 0.8, loaded from
\* memory.json, met by Helper at 0.5 under the defaults stands at 0.8432
C12_Witness ==
    /\ op.name = "applyPersonaUpdate"
    /\ config = DEFAULT_CONFIG
    /\ op.update = UpdateOf({"roles"}, <<Facet("Helper", 50)>>)
    /\ persona.version = 2
    /\ persona.roles = <<[text |-> "helper", weight |-> 8432]>>

\* a facet that was not in the persona has been merged by the last call,
\* and the same update is applied again.  The only memory.json of
\* SpecMerge has version 1, so a persona of version 1 left by
\* applyPersonaUpdate was the empty persona before that call.
SecondMerge ==
    /\ op.name = "applyPersonaUpdate"
    /\ persona.version = 1
    /\ op'.name = "applyPersonaUpdate"
    /\ op'.update = op.update
    /\ persona[CategoryOf(op.update)] # <<>>

---------------------------------------------------------------------------
(* Statements about reflection *)

\* C14: needsReflection() is true exactly when turnCounter -
\* lastReflectTurn >= minReflectGapTurns; it is false on a fresh manager
\* and right after every applyPersonaUpdate; the distance turnCounter -
\* lastReflectTurn grows by one at a time and only in addMessage, so it
\* takes minReflectGapTurns calls of addMessage to make it true again;
\* applyLaneSummary and load leave its value as it is
C14_ReflectionGate ==
    [][/\ needsReflection'
            <=> turnCounter' - lastReflectTurn' >= config.minReflectGapTurns
       /\ op.name = "new" => ~needsReflection
       /\ op'.name = "applyPersonaUpdate"
            => ~needsReflection' /\ turnCounter' = lastReflectTurn'
       /\ turnCounter' - lastReflectTurn'
            <= turnCounter - lastReflectTurn
               + (IF op'.name = "addMessage" THEN 1 ELSE 0)
       /\ op'.name \in {"applyLaneSummary", "load"}
            => needsReflection' = needsReflection]_vars

\* with minReflectGapTurns 3, an update after the first message and three
\* more messages, reflection is due again
C14_Witness ==
    /\ op.name = "addMessage"
    /\ config.minReflectGapTurns = 3
    /\ persona.version >= 1
    /\ lastReflectTurn = 1
    /\ needsReflection

---------------------------------------------------------------------------
(* Statements about the estimate *)

RECURSIVE ContentChars(_)
\* the content lengths of msgs, summed
ContentChars(msgs) ==
    IF Len(msgs) = 0 THEN 0
    ELSE Len(msgs[1].content) + ContentChars(Tail(msgs))

\* the length of basePrompt, normativeBlock and the three lane summaries
\* plus content length + 32 for every message
TotalChars ==
    Len(basePrompt) + Len(normativeBlock) + Len(laneSummaries.assistant)
    + Len(laneSummaries.system) + Len(laneSummaries.user)
    + ContentChars(recentMessages) + 32 * Len(recentMessages)

\* ceil(TotalChars / avgCharsPerToken): the least k with
\* k * avgCharsPerToken >= TotalChars
TotalTokens ==
    CHOOSE k \in (TotalChars \div config.avgCharsPerToken)
                 .. (TotalChars \div config.avgCharsPerToken) + 1 :
        /\ k * config.avgCharsPerToken >= TotalChars
        /\ (k - 1) * config.avgCharsPerToken < TotalChars

\* C15: needsSummarization(), and what memory_add_message answers as
\* needs_summarization, is true exactly when ceil(totalChars /
\* avgCharsPerToken) > contextTokens * highRatio; under the defaults it
\* is true from 5735 tokens on and false up to 5734 tokens
C15_OverThreshold ==
    /\ needsSummarization
         <=> TotalTokens * SCALE > config.contextTokens * config.highRatio
    /\ op.name = "addMessage" => round.needed = needsSummarization
    /\ config = DEFAULT_CONFIG =>
         /\ TotalTokens >= 5735 => needsSummarization
         /\ TotalTokens <= 5734 => ~needsSummarization

\* the estimate stands at 5735 tokens with one character over a multiple
\* of avgCharsPerToken, and addMessage has answered true
C15_Witness ==
    /\ op.name = "addMessage"
    /\ TotalTokens = 5735
    /\ TotalChars % config.avgCharsPerToken = 1
    /\ round.needed

\* the estimate stands at exactly 5734 tokens, and addMessage has
\* answered false
C15_WitnessBelow ==
    /\ op.name = "addMessage"
    /\ TotalTokens = 5734
    /\ TotalChars % config.avgCharsPerToken = 0
    /\ ~round.needed

---------------------------------------------------------------------------
(* Statements about the messages read for reflection *)

\* C16 as claimed: for every maxMessages >= 0,
\* getRecentForReflection(maxMessages) returns the last
\* min(maxMessages, length of recentMessages) entries of recentMessages,
\* in buffer order, and leaves the state unchanged
C16_Original ==
    [][op'.name = "getRecentForReflection" =>
        LET n == Min(op'.count, Len(recentMessages))
        IN /\ op'.messages = [ i \in 1..n |->
                                 recentMessages[Len(recentMessages) - n + i] ]
           /\ UNCHANGED <<files, updatedAt, config, recentMessages,
                          laneSummaries, persona, basePrompt, normativeBlock,
                          turnCounter, lastReflectTurn>>]_vars

---------------------------------------------------------------------------
(* Statements about loading *)

\* the persona of the state object st keeps to the data model: every
\* category within its cap, every weight in [0,1]
WellFormed(st) ==
    \A c \in Categories :
        /\ Len(st.persona[c]) <= Cap[c]
        /\ \A i \in DOMAIN st.persona[c] :
              st.persona[c][i].weight \in 0..SCALE

\* C17 as claimed: when load finds no persisted state, or a malformed
\* one, it reports not-loaded without an error and the state of the
\* manager afterwards is the empty state; when it finds a well-formed
\* persisted state, the state afterwards equals that state
C17_Original ==
    [][op'.name = "load" =>
        /\ op'.error = ""
        /\ IF files.memory.kind = "state" /\ WellFormed(files.memory.value)
           THEN op'.ret = "true" /\ CurrentState' = files.memory.value
           ELSE /\ op'.ret = "false"
                /\ CurrentState' = EmptyState]_vars

---------------------------------------------------------------------------
(* Statements about unknown roles and lanes *)

\* C18 as claimed: a call that passes an unknown role to addMessage, or
\* an unknown lane to getLaneForSummarization or applyLaneSummary, fails
\* and changes nothing in the state
C18_Original ==
    [][\/ op'.name = "addMessage" /\ op'.arg \notin Roles
       \/ /\ op'.name \in {"getLaneForSummarization", "applyLaneSummary"}
          /\ op'.arg \notin Lanes
       => /\ op'.error # ""
          /\ UNCHANGED <<files, updatedAt, config, recentMessages,
                         laneSummaries, persona, basePrompt, normativeBlock,
                         turnCounter, lastReflectTurn>>]_vars

---------------------------------------------------------------------------
(* Statements about the rendered context *)

\* C20: renderContext() changes no part of the manager's state (the
\* state, the turn counter, the last reflection turn), and its output is
\* the same before and after the call, so a second call with no mutating
\* operation in between returns the same text
C20_RenderIsPure ==
    [][op'.name = "renderContext" =>
        /\ UNCHANGED <<files, updatedAt, config, recentMessages,
                       laneSummaries, persona, basePrompt, normativeBlock,
                       turnCounter, lastReflectTurn, now, round>>
        /\ op'.ret = renderContext'
        /\ op.name = "renderContext" => op'.ret = op.ret]_vars

\* renderContext() has returned a context with every kind of section
C20_Witness ==
    /\ op.name = "renderContext"
    /\ op.ret = "[BASE IDENTITY]\nB" \o SEP
                \o "[NORMATIVE POLICY]\nN" \o SEP
                \o "[DYNAMIC PERSONA v2]\nRoles: guide; helper\nGoals: x\nAvoid: x"
                \o SEP \o "[ASSISTANT HISTORY SUMMARY]\nS"
                \o SEP \o "[SYSTEM HISTORY SUMMARY]\nS"
                \o SEP \o "[USER HISTORY SUMMARY]\nS"

---------------------------------------------------------------------------
(* Statements about the sections of the rendered context *)

\* the first position at which sub occurs in s, 0 when it does not occur
IndexOf(s, sub) ==
    LET hits == { i \in 1..(Len(s) - Len(sub) + 1) :
                    SubSeq(s, i, i + Len(sub) - 1) = sub }
    IN IF hits = {} THEN 0 ELSE CHOOSE i \in hits : \A j \in hits : i <= j

\* the headers of the sections in the order claimed
SectionHeaders ==
    << "[BASE IDENTITY]\n", "[NORMATIVE POLICY]\n", "[DYNAMIC PERSONA v",
       "[ASSISTANT HISTORY SUMMARY]\n", "[SYSTEM HISTORY SUMMARY]\n",
       "[USER HISTORY SUMMARY]\n" >>

\* the position of the k-th header in the context out, 0 when it is absent
HeaderAt(out, k) == IndexOf(out, SectionHeaders[k])

\* whether the state asks for each section: a text that is not empty, a
\* persona version above 0
SectionDue ==
    << basePrompt # "", normativeBlock # "", persona.version > 0,
       laneSummaries.assistant # "", laneSummaries.system # "",
       laneSummaries.user # "" >>

\* C21: the context renderContext() returns has the header of a section
\* exactly when its text is not empty (the persona block: exactly when
\* persona.version > 0), the headers stand in the order base identity,
\* normative policy, persona, assistant, system, user, the context of a
\* state that asks for no section is empty, and persona.version is above
\* 0 after an applyPersonaUpdate and stays above 0, so that every context
\* rendered after the first applyPersonaUpdate has a persona block
C21_SectionsInOrder ==
    [][/\ op'.name = "renderContext" =>
            /\ \A k \in DOMAIN SectionHeaders :
                    HeaderAt(op'.ret, k) > 0 <=> SectionDue[k]
            /\ \A j, k \in DOMAIN SectionHeaders :
                    j < k /\ SectionDue[j] /\ SectionDue[k]
                        => HeaderAt(op'.ret, j) < HeaderAt(op'.ret, k)
            /\ (\A k \in DOMAIN SectionHeaders : ~SectionDue[k])
                    => op'.ret = ""
       /\ op'.name = "applyPersonaUpdate" => persona'.version > 0
       /\ persona.version > 0 => persona'.version > 0]_vars

\* renderContext() has returned a context with the base identity, a
\* persona block without any category and the user summary, and without
\* the other three sections
C21_Witness ==
    /\ op.name = "renderContext"
    /\ persona.version = 1
    /\ \A c \in Categories : persona[c] = <<>>
    /\ op.ret = "[BASE IDENTITY]\nB" \o SEP \o "[DYNAMIC PERSONA v1]"
                \o SEP \o "[USER HISTORY SUMMARY]\nS"

---------------------------------------------------------------------------
(* Statements about the order of the message buffer *)

RECURSIVE IsSubsequence(_, _)
\* whether sub is s with some messages left out, the others in the order
\* they have in s
IsSubsequence(sub, s) ==
    IF Len(sub) = 0 THEN TRUE
    ELSE IF Len(s) = 0 THEN FALSE
    ELSE IF Head(sub) = Head(s) THEN IsSubsequence(Tail(sub), Tail(s))
    ELSE IsSubsequence(sub, Tail(s))

\* whether the timestamps of msgs never decrease
Ascending(msgs) ==
    \A i, j \in DOMAIN msgs : i < j => msgs[i].timestamp <= msgs[j].timestamp

\* C22 as claimed: after every addMessage and applyLaneSummary the buffer
\* is in ascending order of timestamp, addMessage puts its message at the
\* end, and the messages applyLaneSummary retains stand in the order they
\* had before, that is the order in which they were added, also when
\* timestamps are equal
C22_Original ==
    [][/\ Ascending(recentMessages')
       /\ op'.name = "addMessage" =>
            /\ Len(recentMessages') = Len(recentMessages) + 1
            /\ SubSeq(recentMessages', 1, Len(recentMessages)) = recentMessages
       /\ op'.name = "applyLaneSummary" =>
            IsSubsequence(recentMessages', recentMessages)]_vars

---------------------------------------------------------------------------
(* Statements about calls that fail *)

\* C23 as claimed: when addMessage, getLaneForSummarization,
\* applyLaneSummary or applyPersonaUpdate fails, the state (messages,
\* lane summaries, persona, base prompt, normative block) and the turns
\* are what they were before the call; applyPersonaUpdate either changes
\* nothing or increments the version by one
C23_Original ==
    [][/\ op'.error # "" =>
            UNCHANGED <<recentMessages, laneSummaries, persona, basePrompt,
                        normativeBlock, turnCounter, lastReflectTurn>>
       /\ op'.name = "applyPersonaUpdate" =>
            \/ persona' = persona
            \/ persona'.version = persona.version + 1]_vars

---------------------------------------------------------------------------
(* Statements about decay *)

\* whether the update has an item for the category whose key is that of
\* the text
Reinforces(update, category, text) ==
    \E i \in DOMAIN FacetsOf(update, category) :
        KeyOf(FacetsOf(update, category)[i].text) = KeyOf(text)

\* C24: with decayPerPass in (0,1) and minKeepWeight > 0, a facet for
\* which the update of an applyPersonaUpdate has no item is afterwards
\* either gone from its category or there with a smaller weight, at most
\* its weight times 1 - decayPerPass, and it is gone when that product is
\* below minKeepWeight; the weights of the facets that stay are at least
\* minKeepWeight, so a facet that no update reinforces is gone after
\* finitely many calls
C24_DecayRemoves ==
    [][op'.name = "applyPersonaUpdate" /\ op'.error = ""
       /\ config.decayPerPass > 0 /\ config.decayPerPass < SCALE
       /\ config.minKeepWeight > 0
       => \A c \in Categories :
            /\ \A j \in DOMAIN persona'[c] :
                    persona'[c][j].weight >= config.minKeepWeight
            /\ \A i \in DOMAIN persona[c] :
                 ~Reinforces(op'.update, c, persona[c][i].text) =>
                    LET w == persona[c][i].weight
                        left == { j \in DOMAIN persona'[c] :
                                    persona'[c][j].text = persona[c][i].text }
                    IN /\ \A j \in left :
                            /\ persona'[c][j].weight < w
                            /\ persona'[c][j].weight
                                    <= Mul(w, SCALE - config.decayPerPass)
                       /\ Mul(w, SCALE - config.decayPerPass)
                                < config.minKeepWeight => left = {}]_vars

\* under the configuration that halves the weights, a role facet that
\* the first update added is gone after two updates for style alone,
\* which brought the style facet from 0.65 to 0.73
C24_Witness ==
    /\ op.name = "applyPersonaUpdate"
    /\ config.decayPerPass = Weight(50)
    /\ persona.version = 3
    /\ persona.roles = <<>>
    /\ persona.style = <<[text |-> "x", weight |-> Weight(73)]>>
    /\ ~Reinforces(op.update, "roles", "helper")

---------------------------------------------------------------------------
(* Statements about the parts of the state a call changes *)

\* C25: addMessage appends one message to recentMessages, adds one to
\* the turn counter and changes nothing else; applyLaneSummary leaves the
\* persona, the summaries of the other two lanes, basePrompt,
\* normativeBlock, the turn counter and the last reflection turn as they
\* were; applyPersonaUpdate leaves recentMessages, the lane summaries,
\* basePrompt, normativeBlock and the turn counter as they were; and no
\* call changes the manager of another agent id than its own
C25_FrameEffects ==
    [][/\ op'.name = "addMessage" =>
            /\ recentMessages' =
                    Append(recentMessages,
                           [role |-> op'.arg, content |-> op'.text,
                            timestamp |-> now'])
            /\ turnCounter' = turnCounter + 1
            /\ UNCHANGED <<config, laneSummaries, persona, basePrompt,
                           normativeBlock, lastReflectTurn, updatedAt>>
       /\ op'.name = "applyLaneSummary" =>
            /\ \A l \in Lanes \ {op'.arg} :
                    laneSummaries'[l] = laneSummaries[l]
            /\ UNCHANGED <<persona, basePrompt, normativeBlock, turnCounter,
                           lastReflectTurn>>
       /\ op'.name = "applyPersonaUpdate" =>
            UNCHANGED <<recentMessages, laneSummaries, basePrompt,
                        normativeBlock, turnCounter>>
       /\ \A id \in AgentIds :
            id # server'.agentId => ManagerOf(id)' = ManagerOf(id)]_vars

\* the first agent's persona has been updated, after a message and a
\* summary of the user lane, while the map holds the second agent's
\* manager with two messages
C25_Witness ==
    /\ server.agentId = "a"
    /\ op.name = "applyPersonaUpdate"
    /\ persona.version = 1
    /\ Len(recentMessages) = 1
    /\ laneSummaries.user = "SSSSS"
    /\ server.managers["b"] # NoManager
    /\ Len(server.managers["b"].state.recentMessages) = 2

---------------------------------------------------------------------------
(* Statements about calls during a load *)

\* C26 as claimed: when memory_add_message, memory_apply_summary or
\* memory_apply_persona was the last call handled while a memory_load
\* awaited its read, what it did to the state (the message it added, the
\* lane summary it stored, the persona it left) is still there when the
\* memory_load has completed
C26_Original ==
    [][server.loading.awaiting /\ op'.name = "memory_load" =>
        /\ op.name = "addMessage" =>
                \E i \in DOMAIN recentMessages' :
                    recentMessages'[i] = recentMessages[Len(recentMessages)]
        /\ op.name = "applyLaneSummary" =>
                laneSummaries'[op.arg] = laneSummaries[op.arg]
        /\ op.name = "applyPersonaUpdate" => persona' = persona]_vars

---------------------------------------------------------------------------
(* Statements about the tools of one agent *)

C19_Original ==
    [][op'.name = "memory_load" /\ basePrompt # ""
         => basePrompt' = basePrompt]_vars

====
